---- MODULE Spec2Model ----
(***************************************************************************)
(* Model of movie_app.py: a Streamlit script that is re-run top to bottom  *)
(* on every user interaction.  One run is: load_movie_df() through the     *)
(* st.cache_data memo (lines 15-28), the None check (29-31), the sidebar   *)
(* widgets (38-42), the three filters (45-49) and the charts (52-138).     *)
(*                                                                         *)
(* Values.  A CSV cell is a tagged record: Empty for an empty field,       *)
(* Txt(s) for text (s a sequence of one-character strings) and Num(v) for  *)
(* a number.  Ratings are counted in half stars (3.0 is 6).  A parsed      *)
(* frame cell is NaN, Str(s), Val(v), NaT or Date(y, m, d); Absent marks a *)
(* column the frame does not have.                                         *)
(***************************************************************************)
EXTENDS Integers, Sequences, FiniteSets, TLC

VARIABLES
    pc,               \* position of the script run
    cache,            \* the st.cache_data entry of load_movie_df
    df,               \* the script's df (line 28)
    filtered_df,      \* the script's filtered_df (lines 45-49)
    selected_genre,   \* widget state, line 40
    year_range,       \* widget state, line 41
    rating_threshold, \* widget state, line 42
    response,         \* what requests.get met in this run (NoResp: no GET)
    loadOutcome,      \* how load_movie_df() ended in this run
    getCount,         \* HTTP GETs issued by this process so far
    errorShown,       \* st.error of line 30 was shown in this run
    rendered,         \* figures handed to st.plotly_chart / st.pyplot in this run
    failedLoad        \* some load of this process has failed

vars == <<pc, cache, df, filtered_df, selected_genre, year_range,
          rating_threshold, response, loadOutcome, getCount, errorShown,
          rendered, failedLoad>>

----------------------------------------------------------------------------
(* Bounds of the model *)

MaxRows == 2

MaxGets == 2

(* Program constants *)

HTTP_OK == 200

DefaultYearLo == 2000

DefaultYearHi == 2020

DefaultRating == 6

RatingSliderMin == 0

RatingSliderMax == 10

----------------------------------------------------------------------------
(* Cells *)

Empty == [t |-> "empty"]

Txt(s) == [t |-> "txt", s |-> s]

Num(v) == [t |-> "num", v |-> v]

NaN == [t |-> "nan"]

Str(s) == [t |-> "str", s |-> s]

Val(v) == [t |-> "val", v |-> v]

NaT == [t |-> "nat"]

Date(y, m, d) == [t |-> "date", y |-> y, m |-> m, d |-> d]

Absent == [t |-> "absent"]

NoFrame == [t |-> "noframe"]

None == [t |-> "none"]

NoResp == [t |-> "noresp"]

NoEntry == [t |-> "noentry"]

RequiredCols == {"genres", "year", "month", "day", "rating", "title", "userId"}

----------------------------------------------------------------------------
(* The remote resource: what the GET of line 18 can meet *)

RawRow(g, y, m, d, r) ==
    [genres |-> g, year |-> y, month |-> m, day |-> d, rating |-> r,
     title |-> Txt(<<"T">>), userId |-> Num(1)]

RowPool ==
    { RawRow(Txt(<<"A", "|", "C">>), Num(1999), Num(2), Num(29), Num(4)),
      RawRow(Txt(<<"C">>), Num(2000), Num(2), Num(29), Num(6)),
      RawRow(Empty, Num(2020), Num(2), Num(30), Num(6)),
      RawRow(Txt(<<"A">>), Empty, Num(1), Num(1), Num(10)),
      RawRow(Txt(<<"C", "|", "A">>), Num(2021), Empty, Num(31), Empty),
      RawRow(Txt(<<"|", "A">>), Num(2020), Num(12), Num(31), Num(10)) }

Tables == UNION { [1..n -> RowPool] : n \in 0..MaxRows }

Headers == {RequiredCols} \cup { RequiredCols \ {c} : c \in RequiredCols }

Statuses == {HTTP_OK, 204, 404}

NoBody == [cols |-> {}, rows |-> <<>>]

Responses ==
    { [net |-> "ok", status |-> HTTP_OK, body |-> [cols |-> h, rows |-> t]] :
          h \in Headers, t \in Tables }
    \cup { [net |-> "ok", status |-> s, body |-> NoBody] : s \in Statuses \ {HTTP_OK} }
    \cup { [net |-> n, status |-> 0, body |-> NoBody] : n \in {"connerr", "hang"} }

----------------------------------------------------------------------------
(* pd.read_csv(StringIO(response.text)), line 20: a header row names the   *)
(* columns, an empty field becomes NaN, and rows get the labels 1..n.      *)

ParseCell(c) ==
    IF c.t = "empty" THEN NaN
    ELSE IF c.t = "txt" THEN Str(c.s)
    ELSE Val(c.v)

Cell(body, i, c) ==
    IF c \in body.cols THEN ParseCell(body.rows[i][c]) ELSE Absent

read_csv(body) ==
    [t |-> "frame",
     cols |-> body.cols,
     rows |-> [i \in 1..Len(body.rows) |->
                  [idx |-> i,
                   genres |-> Cell(body, i, "genres"),
                   year |-> Cell(body, i, "year"),
                   month |-> Cell(body, i, "month"),
                   day |-> Cell(body, i, "day"),
                   rating |-> Cell(body, i, "rating"),
                   title |-> Cell(body, i, "title"),
                   userId |-> Cell(body, i, "userId"),
                   primary_genre |-> Absent,
                   date |-> Absent]]]

(* str.split('|'): the tokens between the separators, at least one *)
RECURSIVE split(_)
split(s) ==
    IF s = <<>> THEN << <<>> >>
    ELSE IF Head(s) = "|" THEN << <<>> >> \o split(Tail(s))
    ELSE LET rest == split(Tail(s))
         IN  << <<Head(s)>> \o Head(rest) >> \o Tail(rest)

(* lambda x: x.split('|')[0], line 21; x is a str here *)
first_genre(s) == Head(split(s))

(* df['genres'].apply(...), line 21: a NaN cell is a float and has no split *)
genres_apply_raises(frame) ==
    \/ "genres" \notin frame.cols
    \/ \E i \in 1..Len(frame.rows) : frame.rows[i].genres.t # "str"

IsLeap(y) == (y % 4 = 0 /\ y % 100 # 0) \/ y % 400 = 0

DaysInMonth(y, m) ==
    IF m = 2 THEN (IF IsLeap(y) THEN 29 ELSE 28)
    ELSE IF m \in {4, 6, 9, 11} THEN 30
    ELSE 31

(* pd.to_datetime(df[['year','month','day']], errors='coerce'), line 22:   *)
(* the three columns are assembled into year*10000 + month*100 + day and   *)
(* that number is parsed as %Y%m%d; what does not parse becomes NaT.       *)
to_datetime(y, m, d) ==
    IF y.t # "val" \/ m.t # "val" \/ d.t # "val" THEN NaT
    ELSE LET n  == y.v * 10000 + m.v * 100 + d.v
             yy == n \div 10000
             mm == (n \div 100) % 100
             dd == n % 100
         IN  IF mm \in 1..12 /\ dd \in 1..DaysInMonth(yy, mm)
             THEN Date(yy, mm, dd)
             ELSE NaT

to_datetime_raises(frame) == ~ ({"year", "month", "day"} \subseteq frame.cols)

(* the derived columns followed by a dropna on the date *)
add_derived_dropna(frame) ==
    LET Dated(r) == to_datetime(r.year, r.month, r.day) # NaT
        kept == SelectSeq(frame.rows, Dated)
    IN  [t |-> "frame",
         cols |-> frame.cols \cup {"primary_genre", "date"},
         rows |-> [i \in 1..Len(kept) |->
                      [kept[i] EXCEPT
                          !.primary_genre = Str(first_genre(kept[i].genres.s)),
                          !.date = to_datetime(kept[i].year, kept[i].month, kept[i].day)]]]

(* lines 21-22: the two derived columns, row for row *)
add_derived(frame) ==
    [t |-> "frame",
     cols |-> frame.cols \cup {"primary_genre", "date"},
     rows |-> [i \in 1..Len(frame.rows) |->
                  [frame.rows[i] EXCEPT
                      !.primary_genre = Str(first_genre(frame.rows[i].genres.s)),
                      !.date = to_datetime(frame.rows[i].year,
                                           frame.rows[i].month,
                                           frame.rows[i].day)]]]

(* response.ok in place of the comparison with 200: any status under 400 *)
status_ok_lenient(status) == status < 400

(* response.status_code == 200, line 19 *)
status_ok(status) == status = HTTP_OK

(* load_movie_df(), lines 16-25, on what the GET meets.  requests.get has  *)
(* no timeout and is in no try block: a connection error leaves the        *)
(* function as an exception, a silent server blocks it.                    *)
load_movie_df(resp) ==
    IF resp.net = "hang" THEN [kind |-> "blocked", value |-> NoFrame]
    ELSE IF resp.net = "connerr" THEN [kind |-> "raise", value |-> NoFrame]
    ELSE IF ~ status_ok(resp.status) THEN [kind |-> "none", value |-> None]
    ELSE LET frame == read_csv(resp.body)
         IN  IF genres_apply_raises(frame) \/ to_datetime_raises(frame)
             THEN [kind |-> "raise", value |-> NoFrame]
             ELSE [kind |-> "table", value |-> add_derived(frame)]

----------------------------------------------------------------------------
(* The sidebar, lines 38-42 *)

All == <<"A", "l", "l">>

YearStops == {1999, DefaultYearLo, DefaultYearHi, 2021}

RatingStops == {RatingSliderMin, DefaultRating, RatingSliderMax}

Min(S) == CHOOSE x \in S : \A y \in S : x <= y

Max(S) == CHOOSE x \in S : \A y \in S : x >= y

YearsOf(frame) ==
    { frame.rows[i].year.v : i \in { j \in 1..Len(frame.rows) : frame.rows[j].year.t = "val" } }

(* df['primary_genre'].unique().tolist(), line 39 *)
genre_options(frame) ==
    { frame.rows[i].primary_genre.s : i \in 1..Len(frame.rows) }

(* int(df['year'].min()), int(df['year'].max()), line 41: min and max skip *)
(* NaN and are NaN themselves when no year is left, and int(NaN) raises    *)
year_bounds_raise(frame) == YearsOf(frame) = {}

(* st.slider widens its bounds to hold the default value (2000, 2020) *)
slider_min(frame) == Min(YearsOf(frame) \cup {DefaultYearLo})

slider_max(frame) == Max(YearsOf(frame) \cup {DefaultYearHi})

----------------------------------------------------------------------------
(* The filters, lines 45-49.  A boolean mask keeps the rows it is True    *)
(* for, in order and under their labels; a comparison with NaN is False.  *)

(* the genre mask with a fallback to the unfiltered frame when it is empty *)
filter_genre_fallback(frame, genre) ==
    LET Test(r) == r.primary_genre = Str(genre)
    IN  IF SelectSeq(frame.rows, Test) = <<>> THEN frame ELSE [frame EXCEPT !.rows = SelectSeq(frame.rows, Test)]

(* line 47 *)
filter_genre(frame, genre) ==
    LET Test(r) == r.primary_genre = Str(genre)
    IN  [frame EXCEPT !.rows = SelectSeq(frame.rows, Test)]

(* the year mask with an exclusive upper end *)
filter_year_exclusive(frame, yr) ==
    LET Test(r) == r.year.t = "val" /\ r.year.v >= yr[1] /\ r.year.v < yr[2]
    IN  [frame EXCEPT !.rows = SelectSeq(frame.rows, Test)]

(* line 48 *)
filter_year(frame, yr) ==
    LET Test(r) == r.year.t = "val" /\ r.year.v >= yr[1] /\ r.year.v <= yr[2]
    IN  [frame EXCEPT !.rows = SelectSeq(frame.rows, Test)]

(* line 49 *)
filter_rating(frame, threshold) ==
    LET Test(r) == r.rating.t = "val" /\ r.rating.v >= threshold
    IN  [frame EXCEPT !.rows = SelectSeq(frame.rows, Test)]

(* df.copy(), line 45 *)
copy(frame) == frame

(* the filters applied to df itself, with no copy and no new name *)
apply_filters_inplace(d, genre, yr, threshold) ==
    LET f1 == IF genre # All THEN filter_genre(d, genre) ELSE d
        f2 == filter_year(f1, yr)
    IN  IF "rating" \in d.cols
        THEN [df |-> filter_rating(f2, threshold),
              filtered_df |-> filter_rating(f2, threshold), raises |-> FALSE]
        ELSE [df |-> f2, filtered_df |-> f2, raises |-> TRUE]

(* lines 45-49 as a whole: what df and filtered_df are bound to afterwards, *)
(* and whether line 49 raised KeyError for want of a rating column.         *)
apply_filters(d, genre, yr, threshold) ==
    LET f0 == copy(d)
        f1 == IF genre # All THEN filter_genre(f0, genre) ELSE f0
        f2 == filter_year(f1, yr)
    IN  IF "rating" \in d.cols
        THEN [df |-> d, filtered_df |-> filter_rating(f2, threshold), raises |-> FALSE]
        ELSE [df |-> d, filtered_df |-> f2, raises |-> TRUE]

----------------------------------------------------------------------------
(* The tabs, lines 52-138: how many figures reach the page.  Line 57 needs *)
(* the title column, the word cloud of line 100 needs one genre token and  *)
(* line 108 needs the userId column; there is no hour column, so line 93   *)
(* shows a note in place of the fifth chart.                               *)

AllFigures == 8

figures_rendered(f) ==
    IF "title" \notin f.cols THEN 0
    ELSE IF Len(f.rows) = 0 THEN 4
    ELSE IF "userId" \notin f.cols THEN 5
    ELSE AllFigures

----------------------------------------------------------------------------
(* The script *)

Init ==
    /\ pc = "load"
    /\ cache = NoEntry
    /\ df = NoFrame
    /\ filtered_df = NoFrame
    /\ selected_genre = All
    /\ year_range = <<DefaultYearLo, DefaultYearHi>>
    /\ rating_threshold = DefaultRating
    /\ response = NoResp
    /\ loadOutcome = "pending"
    /\ getCount = 0
    /\ errorShown = FALSE
    /\ rendered = 0
    /\ failedLoad = FALSE

(* line 28 with an entry in the st.cache_data memo: the stored return      *)
(* value, a frame or None, comes back and the function body does not run.  *)
CachedLoad ==
    /\ pc = "load"
    /\ cache # NoEntry
    /\ df' = cache.value
    /\ loadOutcome' = cache.kind
    /\ pc' = "check"
    /\ UNCHANGED <<cache, filtered_df, selected_genre, year_range,
                   rating_threshold, response, getCount, errorShown,
                   rendered, failedLoad>>

(* line 28 with no entry: the body runs, issuing the GET of line 18; a     *)
(* returned value is stored in the memo, an exception is not and ends the  *)
(* run, and a GET that never returns blocks the run for good.              *)
FetchLoad ==
    /\ pc = "load"
    /\ cache = NoEntry
    /\ getCount < MaxGets
    /\ \E resp \in Responses :
          LET r == load_movie_df(resp)
          IN  /\ response' = resp
              /\ loadOutcome' = r.kind
              /\ getCount' = getCount + 1
              /\ cache' = IF r.kind \in {"table", "none"} THEN r ELSE cache
              /\ df' = IF r.kind \in {"table", "none"} THEN r.value ELSE df
              /\ failedLoad' = (failedLoad \/ r.kind \in {"none", "raise"})
              /\ pc' = IF r.kind \in {"table", "none"} THEN "check"
                       ELSE IF r.kind = "raise" THEN "error"
                       ELSE "blocked"
    /\ UNCHANGED <<filtered_df, selected_genre, year_range, rating_threshold,
                   errorShown, rendered>>

(* lines 29-31 *)
CheckLoaded ==
    /\ pc = "check"
    /\ IF df = None
       THEN /\ errorShown' = TRUE
            /\ pc' = "stopped"
       ELSE /\ errorShown' = errorShown
            /\ pc' = "widgets"
    /\ UNCHANGED <<cache, df, filtered_df, selected_genre, year_range,
                   rating_threshold, response, loadOutcome, getCount,
                   rendered, failedLoad>>

(* lines 38-42: the widgets keep the values the session holds *)
Widgets ==
    /\ pc = "widgets"
    /\ pc' = IF year_bounds_raise(df) THEN "error" ELSE "filter"
    /\ UNCHANGED <<cache, df, filtered_df, selected_genre, year_range,
                   rating_threshold, response, loadOutcome, getCount,
                   errorShown, rendered, failedLoad>>

(* lines 45-49 *)
ApplyFilters ==
    /\ pc = "filter"
    /\ LET r == apply_filters(df, selected_genre, year_range, rating_threshold)
       IN  /\ df' = r.df
           /\ filtered_df' = r.filtered_df
           /\ pc' = IF r.raises THEN "error" ELSE "charts"
    /\ UNCHANGED <<cache, selected_genre, year_range, rating_threshold,
                   response, loadOutcome, getCount, errorShown, rendered,
                   failedLoad>>

(* lines 52-138 *)
RenderCharts ==
    /\ pc = "charts"
    /\ rendered' = figures_rendered(filtered_df)
    /\ pc' = IF rendered' = AllFigures THEN "done" ELSE "error"
    /\ UNCHANGED <<cache, df, filtered_df, selected_genre, year_range,
                   rating_threshold, response, loadOutcome, getCount,
                   errorShown, failedLoad>>

RunOver == pc \in {"done", "error", "stopped"}

CanRun == cache # NoEntry \/ getCount < MaxGets

NewRun ==
    /\ pc' = "load"
    /\ df' = NoFrame
    /\ filtered_df' = NoFrame
    /\ response' = NoResp
    /\ loadOutcome' = "pending"
    /\ errorShown' = FALSE
    /\ rendered' = 0
    /\ UNCHANGED <<cache, getCount, failedLoad>>

(* the user asks for a rerun (menu, key R, page reload) *)
Rerun ==
    /\ RunOver
    /\ CanRun
    /\ NewRun
    /\ UNCHANGED <<selected_genre, year_range, rating_threshold>>

(* the user moves one sidebar widget the run has shown: Streamlit runs the *)
(* script again with the new value                                         *)
UserInteract ==
    /\ pc \in {"done", "error"}
    /\ df # NoFrame
    /\ CanRun
    /\ \/ /\ \E g \in ({All} \cup genre_options(df)) \ {selected_genre} :
                selected_genre' = g
          /\ UNCHANGED <<year_range, rating_threshold>>
       \/ /\ ~ year_bounds_raise(df)
          /\ \E lo \in YearStops, hi \in YearStops :
                /\ slider_min(df) <= lo
                /\ lo <= hi
                /\ hi <= slider_max(df)
                /\ <<lo, hi>> # year_range
                /\ year_range' = <<lo, hi>>
          /\ UNCHANGED <<selected_genre, rating_threshold>>
       \/ /\ ~ year_bounds_raise(df)
          /\ \E th \in RatingStops \ {rating_threshold} :
                rating_threshold' = th
          /\ UNCHANGED <<selected_genre, year_range>>
    /\ NewRun

Next ==
    \/ CachedLoad
    \/ FetchLoad
    \/ CheckLoaded
    \/ Widgets
    \/ ApplyFilters
    \/ RenderCharts
    \/ Rerun
    \/ UserInteract

Spec == Init /\ [][Next]_vars

----------------------------------------------------------------------------
(* Properties *)

Rows(frame) == { frame.rows[i] : i \in 1..Len(frame.rows) }

(* lines 45-49 ran to their end in this run *)
FilterDone == filtered_df # NoFrame /\ "rating" \in df.cols

(* this run's load_movie_df() issued the GET and got an HTTP response *)
Fetched == response # NoResp /\ response.net = "ok"

Selected(r) ==
    /\ selected_genre = All \/ r.primary_genre = Str(selected_genre)
    /\ r.year # NaN
    /\ r.year.v >= year_range[1]
    /\ r.year.v <= year_range[2]
    /\ r.rating # NaN
    /\ r.rating.v >= rating_threshold

(* C1: the filtered table holds a row of the table iff the genre is "All"  *)
(* or the row's primary genre is the selected one, its year lies in the    *)
(* selected range, ends included, and its rating is at least the           *)
(* threshold; a row without a year is left out.                            *)
FilterContract ==
    FilterDone =>
        /\ Rows(filtered_df) \subseteq Rows(df)
        /\ \A r \in Rows(df) : (r \in Rows(filtered_df)) <=> Selected(r)

FilterContractWitness ==
    /\ FilterDone
    /\ selected_genre # All
    /\ \E r \in Rows(df) : r.year = NaN
    /\ \E r \in Rows(filtered_df) : r.year.v = year_range[2]

(* C2: a GET answered with a status other than 200 makes load_movie_df()   *)
(* return None: the run has no table, whole or partial.                    *)
NonSuccessStatusYieldsNone ==
    (Fetched /\ response.status # HTTP_OK) =>
        /\ loadOutcome = "none"
        /\ df = None
        /\ cache.value = None
        /\ filtered_df = NoFrame

NonSuccessStatusWitness ==
    /\ Fetched
    /\ response.status = 404
    /\ pc = "stopped"
    /\ errorShown

ValidTriple(raw) ==
    /\ raw.year.t = "num" /\ raw.month.t = "num" /\ raw.day.t = "num"
    /\ raw.month.v \in 1..12
    /\ raw.day.v \in 1..DaysInMonth(raw.year.v, raw.month.v)

ByGenre(f) == IF selected_genre # All THEN filter_genre(f, selected_genre) ELSE f

ByYear(f) == filter_year(f, year_range)

ByRating(f) == filter_rating(f, rating_threshold)

(* C9: the three filters give the same rows in whatever order they are     *)
(* applied: each of the six orders gives the script's filtered_df.         *)
FilterOrderIndependent ==
    FilterDone =>
        /\ filtered_df = ByRating(ByYear(ByGenre(df)))
        /\ filtered_df = ByRating(ByGenre(ByYear(df)))
        /\ filtered_df = ByYear(ByRating(ByGenre(df)))
        /\ filtered_df = ByYear(ByGenre(ByRating(df)))
        /\ filtered_df = ByGenre(ByRating(ByYear(df)))
        /\ filtered_df = ByGenre(ByYear(ByRating(df)))

FilterOrderWitness ==
    /\ FilterDone
    /\ selected_genre # All
    /\ ByGenre(df) # df
    /\ ByYear(df) # df
    /\ ByRating(df) # df
    /\ ByGenre(df) # ByYear(df)

(* C10: filtering leaves the loaded table as it was right after the load:  *)
(* the df of every run is the table the load stored, whatever was          *)
(* filtered, and the stored table never changes.                           *)
FilterNeverChangesTable ==
    /\ [](df.t = "frame" => df = cache.value)
    /\ [][cache # NoEntry => cache' = cache]_vars

FilterNeverChangesTableWitness ==
    /\ FilterDone
    /\ pc = "error"
    /\ filtered_df.rows = <<>>
    /\ Len(df.rows) = MaxRows
    /\ year_range # <<DefaultYearLo, DefaultYearHi>>
    /\ rating_threshold # DefaultRating

(* C3: once a load has failed, no other GET is issued and neither the      *)
(* filters nor the charts run.                                             *)
FailedLoadIsTerminal ==
    [][failedLoad => (getCount' = getCount /\ pc' \notin {"filter", "charts"})]_vars

(* C4: a 200 response whose CSV lacks a required column gives no table.    *)
MissingColumnGivesNoTable ==
    (Fetched /\ response.status = HTTP_OK /\ response.body.cols # RequiredCols) =>
        (loadOutcome # "table" /\ df.t # "frame")

RECURSIVE UpToPipe(_)
UpToPipe(s) ==
    IF s = <<>> \/ Head(s) = "|" THEN <<>> ELSE <<Head(s)>> \o UpToPipe(Tail(s))

GenreText(c) == IF c = Empty THEN <<>> ELSE c.s

(* C6: every row's primary genre is the part of its genre string before    *)
(* the first '|', the empty string for an empty genre string, and the load *)
(* does not fail over it.                                                  *)
PrimaryGenreOfEveryRow ==
    (Fetched /\ response.status = HTTP_OK /\ response.body.cols = RequiredCols) =>
        /\ loadOutcome = "table"
        /\ \A i \in 1..Len(response.body.rows) :
              df.rows[i].primary_genre
                  = Str(UpToPipe(GenreText(response.body.rows[i].genres)))

(* C7: a process issues at most one GET, however often the script runs.    *)
AtMostOneGet == getCount <= 1

(* C8: a GET that ends without a response makes load_movie_df() return     *)
(* None, neither raising nor blocking.                                     *)
NoResponseYieldsNone ==
    (response # NoResp /\ response.net # "ok") => loadOutcome = "none"

====
